---- MODULE Spec2Model ----
(***************************************************************************)
(* A model of cleanvid's video pipeline: the mute-segment algebra          *)
(* (models/segment.py), the scene zones (models/scene.py), the filter      *)
(* generation (services/scene_processor.py), the job status tracker        *)
(* (services/processing_queue.py) and the orchestration of the engine      *)
(* passes (services/video_processor.py, VideoProcessor.process_video).     *)
(*                                                                         *)
(* Time is counted in ticks of 0.1 s, so the adjacency tolerance of 0.1 s  *)
(* is one tick.  The external engine (ffmpeg/ffprobe) is a black box: an   *)
(* invocation ends with exit code zero or non-zero, a failed invocation    *)
(* may or may not leave a partial output file behind, and the duration of  *)
(* what it wrote is whatever a later probe reports.                        *)
(***************************************************************************)
EXTENDS Integers, Sequences, FiniteSets, TLC

\* ---------------------------------------------------------------- bounds
MaxT == 2
MaxZones == 2
MaxSegs == 1
MaxPad == 1
MaxRuns == 2
MaxEdits == 1
\* direct calls of the segment and filter functions: times 0..MaxTick, lists
\* of up to MaxList elements
MaxTick == 7
MaxList == 3
\* direct calls of the ProcessingQueue methods in one behaviour
MaxCalls == 4
\* The most jobs the pending list holds.
MaxPending == 2
\* The most tracker calls made while a reader polls the status file, and the
\* most reads the reader makes.
MaxWrites == 2
MaxReads == 1
\* The most calls of FileManager methods in a behaviour.
MaxFileCalls == 4
\* The most calls of QueueManager methods in a behaviour, and the highest
\* priority a caller gives.
MaxManagerCalls == 4
MaxPriority == 1

\* ------------------------------------------------------------- constants
\* MuteSegment.is_adjacent_to: tolerance = 0.1 s, in ticks
Tolerance == 1
\* MuteSegment.confidence = 1.0, in tenths
ConfFull == 10

Min(a, b) == IF a <= b THEN a ELSE b
Max(a, b) == IF a >= b THEN a ELSE b
Abs(a) == IF a >= 0 THEN a ELSE 0 - a

\* Python's sorted() by start_time (MuteSegment.__lt__, key=lambda z: z.start_time):
\* a stable sort, as an insertion sort.
RECURSIVE InsertByStart(_, _)
InsertByStart(x, s) ==
    IF s = <<>> THEN <<x>>
    ELSE IF x.start_time < Head(s).start_time THEN <<x>> \o s
    ELSE <<Head(s)>> \o InsertByStart(x, Tail(s))

\* A sort that leaves the list as it is.
unsorted(s) == s

RECURSIVE sorted(_)
sorted(s) ==
    IF s = <<>> THEN <<>>
    ELSE LET n == Len(s)
         IN  InsertByStart(s[n], sorted(SubSeq(s, 1, n - 1)))

SeqsUpTo(S, n) == UNION {[1..k -> S] : k \in 0..n}

\* ------------------------------------------------- models/segment.py
MuteSegmentValid(seg) ==
    /\ seg.start_time >= 0
    /\ seg.end_time > seg.start_time
    /\ seg.confidence >= 0 /\ seg.confidence <= ConfFull
    /\ seg.word # <<>>

MuteSegment(start, end, word, confidence) ==
    [start_time |-> start, end_time |-> end, word |-> word, confidence |-> confidence]

overlaps_with(self, other) ==
    self.start_time < other.end_time /\ self.end_time > other.start_time

\* An adjacency test without tolerance: nothing is adjacent.
never_adjacent(self, other) == FALSE

is_adjacent_to(self, other) ==
    LET gap == Min(Abs(self.end_time - other.start_time),
                   Abs(other.end_time - self.start_time))
    IN  gap <= Tolerance

merge_with(self, other) ==
    MuteSegment(Min(self.start_time, other.start_time),
                Max(self.end_time, other.end_time),
                self.word \o other.word,
                Min(self.confidence, other.confidence))

\* A padding that always adds one tick after the end.
add_padding_and_one(self, before, after) ==
    MuteSegment(Max(0, self.start_time - before), self.end_time + after + 1,
                self.word, self.confidence)

add_padding(self, before, after) ==
    MuteSegment(Max(0, self.start_time - before), self.end_time + after,
                self.word, self.confidence)

RECURSIVE MergeScan(_, _)
MergeScan(merged, rest) ==
    IF rest = <<>> THEN merged
    ELSE LET current == Head(rest)
             previous == merged[Len(merged)]
         IN  IF overlaps_with(current, previous) \/ is_adjacent_to(current, previous)
             THEN MergeScan([merged EXCEPT ![Len(merged)] = merge_with(previous, current)],
                            Tail(rest))
             ELSE MergeScan(Append(merged, current), Tail(rest))

merge_overlapping_segments(segments) ==
    IF segments = <<>> THEN <<>>
    ELSE LET sorted_segments == sorted(segments)
         IN  MergeScan(<<Head(sorted_segments)>>, Tail(sorted_segments))

add_padding_to_segments(segments, before, after) ==
    merge_overlapping_segments(
        [i \in 1..Len(segments) |-> add_padding(segments[i], before, after)])

\* MuteSegment.to_ffmpeg_filter: volume=0 enabled between start and end;
\* the word and the confidence are not part of the filter text.
to_ffmpeg_filter(seg) == [from |-> seg.start_time, to |-> seg.end_time]

\* "" is the empty chain <<>>.
create_ffmpeg_filter_chain(segments) ==
    [i \in 1..Len(segments) |-> to_ffmpeg_filter(segments[i])]

\* --------------------------------------------------- models/scene.py
Modes == {"skip", "blur", "black"}

\* SkipZone's field constraints (gt=0) and its two validators.
SkipZoneValid(z) ==
    /\ z.start_time > 0
    /\ z.end_time > 0
    /\ z.end_time > z.start_time
    /\ ~(z.mute /\ z.mode = "skip")

SkipZones ==
    {z \in [mode : Modes, start_time : 0..MaxT, end_time : 0..MaxT, mute : BOOLEAN] :
        SkipZoneValid(z)}

ZoneLists == SeqsUpTo(SkipZones, MaxZones)

get_zones_by_mode(skip_zones, mode) ==
    SelectSeq(skip_zones, LAMBDA z : z.mode = mode)

get_mute_zones(skip_zones) ==
    SelectSeq(skip_zones, LAMBDA z : z.mute)

\* ---------------------------------------- services/scene_processor.py
\* The empty filter string "".
NoFilter == <<>>

\* enable='between(t,s1,e1)+between(t,s2,e2)+...'
EnableExpr(zones) ==
    [i \in 1..Len(zones) |-> [from |-> zones[i].start_time, to |-> zones[i].end_time]]

generate_blur_filter(zones) ==
    IF zones = <<>> THEN NoFilter
    ELSE <<[stage |-> "gblur", enable |-> EnableExpr(zones)]>>

generate_black_filter(zones) ==
    IF zones = <<>> THEN NoFilter
    ELSE <<[stage |-> "drawbox", enable |-> EnableExpr(zones)]>>

\* ','.join of the stages that are not empty; "" when there is none.
combine_video_filters(blur_zones, black_zones) ==
    generate_blur_filter(blur_zones) \o generate_black_filter(black_zones)

\* generate_skip_filter returns a filter string, or the pair ("", "") that is
\* no string: is_str tells them apart.
EmptyPair == [is_str |-> FALSE, concat |-> <<>>]

\* The sweep over the sorted zones: st = [keep, last_end].
RECURSIVE KeepSweep(_, _)
KeepSweep(st, zones) ==
    IF zones = <<>> THEN st
    ELSE LET zone == Head(zones)
             keep == IF zone.start_time > st.last_end
                     THEN Append(st.keep, <<st.last_end, zone.start_time>>)
                     ELSE st.keep
         IN  KeepSweep([keep |-> keep, last_end |-> Max(st.last_end, zone.end_time)],
                       Tail(zones))

keep_segments(zones, duration) ==
    LET sorted_zones == sorted(zones)
        swept == KeepSweep([keep |-> <<>>, last_end |-> 0], sorted_zones)
    IN  IF swept.last_end < duration
        THEN Append(swept.keep, <<swept.last_end, duration>>)
        ELSE swept.keep

\* One trim per keep segment (without end= when the segment ends at duration),
\* concatenated in order into [outv][outa].
TrimPart(seg, duration) ==
    [start |-> seg[1], end |-> seg[2], to_eof |-> (seg[2] = duration)]

generate_skip_filter(zones, duration) ==
    IF zones = <<>> THEN EmptyPair
    ELSE LET keep == keep_segments(zones, duration)
         IN  IF keep = <<>> THEN EmptyPair
             ELSE [is_str |-> TRUE,
                   concat |-> [i \in 1..Len(keep) |-> TrimPart(keep[i], duration)]]

\* Mute ranges that reach one tick beyond the zones they come from.
get_mute_segments_widened(zones) ==
    LET muted == SelectSeq(zones, LAMBDA z : z.mute)
    IN  [i \in 1..Len(muted) |-> <<muted[i].start_time, muted[i].end_time + 1>>]

get_mute_segments(zones) ==
    LET muted == SelectSeq(zones, LAMBDA z : z.mute)
    IN  [i \in 1..Len(muted) |-> <<muted[i].start_time, muted[i].end_time>>]

\* ------------------------------------- services/processing_queue.py
\* A timestamp is None or a stamp of datetime.now().
None == 0
Stamp == 1

\* A step that is created already running.
JobStepRunning(name) ==
    [name |-> name, status |-> "running", started_at |-> Stamp, completed_at |-> None]

JobStep(name) ==
    [name |-> name, status |-> "pending", started_at |-> None, completed_at |-> None]

\* self.current_job = None
NoJob ==
    [present |-> FALSE, video_path |-> "", status |-> "", steps |-> <<>>,
     started_at |-> None, completed_at |-> None,
     blur_count |-> 0, black_count |-> 0, skip_count |-> 0, profanity_count |-> 0]

get_status(job, pending) ==
    [current_job |-> job, pending_count |-> Len(pending), pending_jobs |-> pending]

\* The tracker as a value q = [job, pending, file, flushed]: the current job, the
\* pending list, the status file _save last wrote, and the document complete_job
\* flushes before it clears the job.
\* A _save that writes nothing.
save_skipped(q) == q

\* _save: the file is replaced by get_status().
save(q) == [q EXCEPT !.file = get_status(q.job, q.pending)]

start_job(q, video_path, blur, black, skip, profanity) ==
    LET visual == blur > 0 \/ black > 0
        steps ==
            (IF visual THEN <<JobStep("Pass 1: Apply filter(s)")>> ELSE <<>>)
            \o (IF skip > 0
                THEN <<JobStep(IF visual THEN "Pass 2: Cut skip zone(s)"
                                         ELSE "Pass 1: Cut skip zone(s)")>>
                ELSE <<>>)
            \o (IF ~(visual \/ skip > 0)
                THEN <<JobStep("Mute profanity segment(s)")>> ELSE <<>>)
        job == [present |-> TRUE, video_path |-> video_path, status |-> "processing",
                steps |-> steps, started_at |-> Stamp, completed_at |-> None,
                blur_count |-> blur, black_count |-> black, skip_count |-> skip,
                profanity_count |-> profanity]
    IN  save([q EXCEPT !.job = job])

\* An update without the range check, where an index wraps around the steps
\* as Python's negative indexes do.
update_step_wrapping(q, step_index, status) ==
    IF ~q.job.present \/ q.job.steps = <<>> THEN q
    ELSE LET at == (step_index % Len(q.job.steps)) + 1
         IN  save([q EXCEPT !.job.steps[at].status = status])

\* step_index is 0-based as in the code; steps[step_index + 1] here.
update_step(q, step_index, status) ==
    IF ~q.job.present THEN q
    ELSE IF step_index < 0 \/ step_index >= Len(q.job.steps) THEN q
    ELSE LET step == q.job.steps[step_index + 1]
             stepped ==
                 [step EXCEPT
                    !.status = status,
                    !.started_at = IF status = "running" THEN Stamp ELSE @,
                    !.completed_at = IF status \in {"complete", "failed"} THEN Stamp ELSE @]
         IN  save([q EXCEPT !.job.steps[step_index + 1] = stepped])

\* A step that complete_job leaves as it is.
FinishStepKept(step, success) == step

FinishStep(step, success) ==
    IF step.status \in {"pending", "running"}
    THEN [step EXCEPT !.status = IF success THEN "complete" ELSE "failed",
                      !.completed_at = Stamp]
    ELSE step

complete_job(q, success) ==
    IF ~q.job.present THEN q
    ELSE LET done ==
                 [q.job EXCEPT
                    !.status = IF success THEN "complete" ELSE "failed",
                    !.completed_at = Stamp,
                    !.steps = [i \in 1..Len(q.job.steps) |->
                                  FinishStep(q.job.steps[i], success)]]
             flushed == save([q EXCEPT !.job = done])
         IN  save([flushed EXCEPT !.job = NoJob, !.flushed = flushed.file])

\* ProcessingJob(video_path=video_path, status="pending", is_batch_mode=False)
PendingJob(video_path) ==
    [NoJob EXCEPT !.present = TRUE, !.video_path = video_path, !.status = "pending"]

add_pending_jobs(q, video_paths) ==
    save([q EXCEPT !.pending =
             @ \o [i \in 1..Len(video_paths) |-> PendingJob(video_paths[i])]])

clear_pending_jobs(q) == save([q EXCEPT !.pending = <<>>])

\* A _load that reports the job it finds as complete.
load_as_complete(q) ==
    [q EXCEPT !.job = IF q.file.current_job.present
                      THEN [q.file.current_job EXCEPT !.status = "complete"]
                      ELSE NoJob,
              !.pending = q.file.pending_jobs]

\* __init__ and _load of a tracker constructed over the status file of q:
\* current_job and pending_jobs are rebuilt field by field from the document,
\* and nothing is written.
load(q) ==
    [q EXCEPT !.job = q.file.current_job, !.pending = q.file.pending_jobs]

\* ------------------------------------------ services/file_manager.py
\* The video files discover_videos finds in the input directory.
Videos == {"a.mkv", "b.mkv"}

\* A FileManager as a value fm = [files, log]: _processed_files and the
\* entries of processed_log.json (no file reads as no entry).
\* _load_processed_log: the video_path of every entry.
load_processed_log(log) == {log[i].video_path : i \in 1..Len(log)}

\* A mark that writes the log entry and forgets the set.
mark_in_log_only(fm, video_path, success) ==
    [fm EXCEPT !.log = Append(@, [video_path |-> video_path, success |-> success])]

mark_as_processed(fm, video_path, success) ==
    [files |-> fm.files \cup {video_path},
     log |-> Append(fm.log, [video_path |-> video_path, success |-> success])]

is_processed(fm, video_path) == video_path \in fm.files

get_unprocessed_videos(fm) == {video \in Videos : video \notin fm.files}

clear_processed_log(fm) == [files |-> {}, log |-> <<>>]

reset_processed_status(fm, video_path) ==
    IF video_path \notin fm.files THEN [fm |-> fm, returned |-> FALSE]
    ELSE [fm |-> [files |-> fm.files \ {video_path},
                  log |-> SelectSeq(fm.log, LAMBDA e : e.video_path # video_path)],
          returned |-> TRUE]

reset_failed_videos(fm) ==
    LET failed_entries == SelectSeq(fm.log, LAMBDA e : ~e.success)
        successful_entries == SelectSeq(fm.log, LAMBDA e : e.success)
    IN  [fm |-> [files |-> fm.files \ load_processed_log(failed_entries),
                 log |-> successful_entries],
         count |-> Len(failed_entries)]

\* ----------------------------------------- services/queue_manager.py
\* queue.sort(key=priority, reverse=True) is stable: an insertion sort that
\* puts each entry before the first entry of a lower priority.
RECURSIVE InsertByPriority(_, _)
InsertByPriority(entry, queue) ==
    IF queue = <<>> THEN <<entry>>
    ELSE IF Head(queue).priority < entry.priority THEN <<entry>> \o queue
    ELSE <<Head(queue)>> \o InsertByPriority(entry, Tail(queue))

\* A sort that puts the entry it appended first among its equals.
sort_new_first(queue) ==
    IF queue = <<>> THEN queue
    ELSE LET entry == queue[Len(queue)]
             rest == SubSeq(queue, 1, Len(queue) - 1)
             above == SelectSeq(rest, LAMBDA e : e.priority > entry.priority)
             others == SelectSeq(rest, LAMBDA e : e.priority <= entry.priority)
         IN  above \o <<entry>> \o others

RECURSIVE sort_by_priority(_)
sort_by_priority(queue) ==
    IF queue = <<>> THEN <<>>
    ELSE InsertByPriority(queue[Len(queue)],
                          sort_by_priority(SubSeq(queue, 1, Len(queue) - 1)))

\* Each method loads the queue from the file and returns the queue it saved
\* (the queue it loaded when it saves nothing) with its return value.
add_to_queue(queue, video_path, priority, now) ==
    IF \E i \in 1..Len(queue) : queue[i].video_path = video_path
    THEN [queue |-> queue, returned |-> FALSE]
    ELSE [queue |-> sort_by_priority(
                        Append(queue, [video_path |-> video_path,
                                       priority |-> priority, added_at |-> now])),
          returned |-> TRUE]

remove_from_queue(queue, video_path) ==
    LET kept == SelectSeq(queue, LAMBDA e : e.video_path # video_path)
    IN  [queue |-> kept, returned |-> Len(kept) < Len(queue)]

clear_queue(queue) == [queue |-> <<>>, returned |-> TRUE]

\* The popped entry as a list of one, or the empty list for None.
pop_next(queue) ==
    IF queue = <<>> THEN [queue |-> queue, popped |-> <<>>]
    ELSE [queue |-> Tail(queue), popped |-> <<Head(queue)>>]

\* --------------------------------------------- models/processing.py
NoPath == <<"", "">>

NewResult ==
    [status |-> "processing", output_path |-> NoPath, segments_muted |-> 0,
     scene_zones_processed |-> 0, has_custom_scenes |-> FALSE, error_message |-> ""]

mark_complete(result, success, error) ==
    IF success THEN [result EXCEPT !.status = "success"]
    ELSE [result EXCEPT !.status = "failed",
                        !.error_message = IF error # "" THEN error ELSE @]

\* ----------------------------------------- services/video_processor.py
VARIABLES
    scene_filters,     \* the video's persisted zone list (scene_filters.json)
    edits,             \* saves of the zone list made by the scene editor so far
    fs,                \* the files: path -> what it holds
    run,               \* calls of process_video so far
    pc,                \* where the current call of process_video is
    pv,                \* the locals of the current call
    result,            \* the ProcessingResult of the current call
    invocations,       \* the engine invocations of the current call, in order
    unlink_attempted,  \* pass1_output.unlink() in the current call: "no", "unlinked", "raised"
    temp_paths,        \* the temp_output path of every two-pass call, in order
    current_job,       \* ProcessingQueue.current_job
    pending_jobs,      \* ProcessingQueue.pending_jobs
    status_file,       \* processing_status.json as last written
    flushed_job,       \* the document complete_job wrote before clearing the job
    pure,              \* the last direct call of a segment or filter function
    queue_call,        \* the last direct call of a ProcessingQueue method
    save_pc,           \* where the _save in progress is in writing status_file
    observed,          \* what the last reader of processing_status.json found
    processed_files,   \* FileManager._processed_files
    processed_log,     \* processed_log.json: the entries, oldest first
    fm_call,           \* the last direct call of a FileManager method
    queue_file,        \* scene_queue.json: the entries, first to process first
    qm_call            \* the last direct call of a QueueManager method

vars == <<scene_filters, edits, fs, run, pc, pv, result, invocations,
          unlink_attempted, temp_paths, current_job, pending_jobs, status_file,
          flushed_job, pure, queue_call, save_pc, observed, processed_files,
          processed_log, fm_call, queue_file, qm_call>>

\* What the direct callers of the library functions hold; process_video never
\* touches it.
observer == <<save_pc, observed>>
managers == <<processed_files, processed_log, fm_call, queue_file, qm_call>>
callers == <<pure, queue_call, observer, managers>>

\* The state of process_video and of the scene store, and the tracker's.
pipeline == <<scene_filters, edits, fs, run, pc, pv, result, invocations,
              unlink_attempted, temp_paths>>
tracker == <<current_job, pending_jobs, status_file, flushed_job>>

VideoPath == <<"video", "">>
OutputPath == <<"out", "">>

\* output_path.parent / f"{output_path.stem}_temp{output_path.suffix}"
TempOutput(output_path, run_no) == <<output_path[1], "_temp">>

Paths == {VideoPath, OutputPath, TempOutput(OutputPath, 0)}

NoFile == [exists |-> FALSE, by |-> 0, content |-> "none", duration |-> 0]
File(by, content, duration) ==
    [exists |-> TRUE, by |-> by, content |-> content, duration |-> duration]

\* What a probe of an engine output can report, and the source's duration.
Durations == 1..MaxT
SourceDuration == MaxT

\* What the profanity detector can hand over: valid MuteSegments.
\* within the zones' time range, plus one far from every zone.
DetectedSegments ==
    {seg \in [start_time : 0..MaxT, end_time : 0..MaxT,
              word : {<<"w">>}, confidence : {ConfFull}] : MuteSegmentValid(seg)}
    \cup {MuteSegment(MaxT + MaxPad + Tolerance + 1, MaxT + MaxPad + Tolerance + 2,
                      <<"w">>, ConfFull)}

DetectedLists == SeqsUpTo(DetectedSegments, MaxSegs)

NoLocals ==
    [blur_zones |-> <<>>, black_zones |-> <<>>, skip_zones |-> <<>>,
     video_filter_complex |-> NoFilter, padded_segments |-> <<>>,
     pass1_output |-> NoPath, scene_zones_applied |-> 0,
     segments |-> <<>>, mute_padding_before_ms |-> 0, mute_padding_after_ms |-> 0]

Tracker == [job |-> current_job, pending |-> pending_jobs, file |-> status_file,
            flushed |-> flushed_job]

SetTracker(q) ==
    /\ current_job' = q.job
    /\ pending_jobs' = q.pending
    /\ status_file' = q.file
    /\ flushed_job' = q.flushed

\* The command _process_with_scene_filters builds (lines 478-514).
scene_command(input_path, output_path, video_filter_complex, skip_filter, audio_filter_chain, padded_segments, is_skip_mode) ==
    [pass |-> IF is_skip_mode THEN "cut" ELSE "obscure",
     input |-> input_path,
     output |-> output_path,
     filter_complex |-> IF is_skip_mode THEN NoFilter ELSE video_filter_complex,
     concat |-> IF is_skip_mode THEN skip_filter.concat ELSE <<>>,
     af |-> IF ~is_skip_mode /\ padded_segments # <<>> /\ audio_filter_chain # <<>>
            THEN audio_filter_chain ELSE <<>>,
     preset |-> IF is_skip_mode THEN "fast" ELSE "medium",
     outcome |-> "running"]

\* ' '.join(cmd) raises TypeError when the filter is the pair ("", ""); the
\* except clause turns it into False before subprocess.run is reached.
command_raises(skip_filter, is_skip_mode) == is_skip_mode /\ ~skip_filter.is_str

\* The command FFmpegWrapper.mute_audio builds (-af on the whole input, -c:v copy).
mute_command(input_path, output_path, filter_chain) ==
    [pass |-> "mute", input |-> input_path, output |-> output_path,
     filter_complex |-> NoFilter, concat |-> <<>>, af |-> filter_chain,
     preset |-> "copy", outcome |-> "running"]

\* What the engine leaves at its output path when the invocation ends.
EngineWrites(files, cmd, ok, wrote, duration) ==
    IF ok THEN [files EXCEPT ![cmd.output] = File(run, "complete", duration)]
    ELSE IF wrote THEN [files EXCEPT ![cmd.output] = File(run, "partial", 0)]
    ELSE files

\* The last invocation ends with exit code 0 (ok) or not.
Ended(ok) ==
    [invocations EXCEPT ![Len(invocations)].outcome = IF ok THEN "ok" ELSE "fail"]

\* No direct call of a segment or filter function was made yet.
NoPure ==
    [op |-> "none", segments |-> <<>>, before |-> 0, after |-> 0, zones |-> <<>>,
     duration |-> 0, returned |-> <<>>, again |-> <<>>, filter |-> EmptyPair,
     accepted |-> FALSE]

\* No direct call of a ProcessingQueue method was made yet.
NoQueueCall ==
    [op |-> "none", calls |-> 0, step_index |-> 0, status |-> "", success |-> FALSE,
     blur |-> 0, black |-> 0, skip |-> 0, profanity |-> 0,
     prior |-> [job |-> NoJob, pending |-> <<>>, file |-> get_status(NoJob, <<>>),
                flushed |-> get_status(NoJob, <<>>)]]

\* Nobody read processing_status.json yet.
NoRead == [reads |-> 0, bytes |-> "none", document |-> get_status(NoJob, <<>>)]

\* No direct call of a FileManager method was made yet.
NoFileCall ==
    [op |-> "none", calls |-> 0, instance |-> 0, video_path |-> "",
     success |-> FALSE, returned |-> FALSE, count |-> 0, unprocessed |-> {}]

\* No direct call of a QueueManager method was made yet.
NoManagerCall ==
    [op |-> "none", calls |-> 0, video_path |-> "", priority |-> 0,
     returned |-> FALSE, popped |-> <<>>, prior |-> <<>>]

Init ==
    /\ scene_filters \in ZoneLists
    /\ edits = 0
    /\ fs = [p \in Paths |-> IF p = VideoPath THEN File(0, "source", SourceDuration)
                                            ELSE NoFile]
    /\ run = 0
    /\ pc = "idle"
    /\ pv = NoLocals
    /\ result = NewResult
    /\ invocations = <<>>
    /\ unlink_attempted = "no"
    /\ temp_paths = <<>>
    /\ current_job = NoJob
    /\ pending_jobs = <<>>
    /\ status_file = get_status(NoJob, <<>>)
    /\ flushed_job = get_status(NoJob, <<>>)
    /\ pure = NoPure
    /\ queue_call = NoQueueCall
    /\ save_pc = "closed"
    /\ observed = NoRead
    /\ processed_files = {}
    /\ processed_log = <<>>
    /\ fm_call = NoFileCall
    /\ queue_file = <<>>
    /\ qm_call = NoManagerCall

\* web/app.py api_save_video_scene_filters: the scene editor replaces the
\* video's zone list with validated zones, at any time.
SaveSceneFilters(zones) ==
    /\ edits < MaxEdits
    /\ zones # scene_filters
    /\ scene_filters' = zones
    /\ edits' = edits + 1
    /\ UNCHANGED <<fs, run, pc, pv, result, invocations, unlink_attempted,
                   temp_paths, current_job, pending_jobs, status_file, flushed_job>>
    /\ UNCHANGED callers

\* process_video returns: the call is over, with this result and these effects.
Returns(res, q, files, log, locals, unlinked) ==
    /\ pc' = "done"
    /\ result' = res
    /\ SetTracker(q)
    /\ fs' = files
    /\ invocations' = log
    /\ pv' = locals
    /\ unlink_attempted' = unlinked
    /\ UNCHANGED <<scene_filters, edits>>
    /\ UNCHANGED callers

\* process_video blocks in subprocess.run on cmd.
Invokes(at, cmd, q, locals) ==
    /\ pc' = at
    /\ invocations' = Append(invocations, cmd)
    /\ SetTracker(q)
    /\ pv' = locals
    /\ UNCHANGED <<scene_filters, edits, fs, result, unlink_attempted>>
    /\ UNCHANGED callers

\* Lines 424-436: the result and the job are completed from success.
Epilogue(res, success, scene_zones_applied) ==
    IF success
    THEN [mark_complete(res, TRUE, "") EXCEPT
            !.output_path = OutputPath,
            !.scene_zones_processed = scene_zones_applied,
            !.has_custom_scenes = scene_zones_applied > 0]
    ELSE mark_complete(res, FALSE, "FFmpeg processing failed")

\* Lines 438-442: the except clause of process_video.
Raised(res, q, error) ==
    [res |-> mark_complete(res, FALSE, error), q |-> complete_job(q, FALSE)]

\* A test that never finds the video clean.
never_clean(segments, video_filter_complex) == FALSE

\* Line 219: nothing to mute and no blur/black filter.
is_clean(segments, video_filter_complex) ==
    Len(segments) = 0 /\ video_filter_complex = NoFilter

\* Lines 114-265: subtitle, detection, first load of the zones, the clean-copy
\* shortcut, padding and merging, start_job.
StartRun(segments, before, after, subtitle_found, copy_ok) ==
    /\ pc \in {"idle", "done"}
    /\ run < MaxRuns
    /\ run' = run + 1
    /\ UNCHANGED temp_paths
    /\ LET video_filters == scene_filters
           found == Len(video_filters) > 0
           skip_zones == IF found THEN get_zones_by_mode(video_filters, "skip") ELSE <<>>
           blur_zones == IF found THEN get_zones_by_mode(video_filters, "blur") ELSE <<>>
           black_zones == IF found THEN get_zones_by_mode(video_filters, "black") ELSE <<>>
           scene_mute_zones == IF found THEN get_mute_zones(video_filters) ELSE <<>>
           visual == blur_zones # <<>> \/ black_zones # <<>>
           video_filter_complex ==
               IF visual THEN combine_video_filters(blur_zones, black_zones) ELSE NoFilter
           scene_zones_applied ==
               IF visual THEN Len(blur_zones) + Len(black_zones) ELSE 0
           scene_mute_ranges == get_mute_segments(scene_mute_zones)
           scene_mute_segments ==
               [i \in 1..Len(scene_mute_ranges) |->
                   MuteSegment(scene_mute_ranges[i][1], scene_mute_ranges[i][2],
                               <<"[scene_mute]">>, ConfFull)]
           all_segments == segments \o scene_mute_segments
           padded_segments == add_padding_to_segments(all_segments, before, after)
           locals == [blur_zones |-> blur_zones, black_zones |-> black_zones,
                      skip_zones |-> skip_zones,
                      video_filter_complex |-> video_filter_complex,
                      padded_segments |-> padded_segments,
                      pass1_output |-> NoPath,
                      scene_zones_applied |-> scene_zones_applied,
                      segments |-> all_segments,
                      mute_padding_before_ms |-> before,
                      mute_padding_after_ms |-> after]
       IN  IF ~subtitle_found
           THEN Returns(mark_complete(NewResult, FALSE,
                            "No subtitle file found or could not be downloaded"),
                        Tracker, fs, <<>>, NoLocals, "no")
           ELSE IF is_clean(all_segments, video_filter_complex)
           THEN IF copy_ok
                THEN Returns(mark_complete([NewResult EXCEPT !.output_path = OutputPath,
                                                             !.status = "skipped"],
                                           TRUE, "clean video copied"),
                             Tracker,
                             [fs EXCEPT ![OutputPath] =
                                 File(run + 1, "copy", fs[VideoPath].duration)],
                             <<>>, [locals EXCEPT !.padded_segments = <<>>], "no")
                ELSE Returns(mark_complete(NewResult, FALSE, "Failed to copy clean video"),
                             Tracker, fs, <<>>,
                             [locals EXCEPT !.padded_segments = <<>>], "no")
           ELSE /\ pc' = "started"
                /\ result' = [NewResult EXCEPT !.segments_muted = Len(padded_segments)]
                /\ pv' = locals
                /\ SetTracker(start_job(Tracker, "video", Len(blur_zones),
                                                Len(black_zones), Len(skip_zones),
                                                Len(padded_segments)))
                /\ invocations' = <<>>
                /\ unlink_attempted' = "no"
                /\ UNCHANGED <<scene_filters, edits, fs>>
                /\ UNCHANGED callers

\* A pass 1 whose failure would let the call go on to pass 2.
pass1_continues(success) == FALSE

\* Lines 309-311: a failed pass 1 ends the call.
pass1_aborts(success) == ~success

\* A pass 2 that would build its cut filter from the source's duration.
source_duration(files, pass1_output) == files[VideoPath].duration

\* Lines 325-326: the duration the cut filter of pass 2 is built from.
pass2_duration(files, pass1_output) == files[pass1_output].duration

\* ffmpeg.probe(path) raises when the file is missing or ffprobe fails.
probe_raises(files, path, probe_ok) == ~files[path].exists \/ ~probe_ok

\* Lines 346-349: pass1_output.unlink() inside try/except: pass.
unlink(files, path, unlink_ok) ==
    IF unlink_ok /\ files[path].exists
    THEN [files |-> [files EXCEPT ![path] = NoFile], how |-> "unlinked"]
    ELSE [files |-> files, how |-> "raised"]

\* Lines 267-418 up to the first subprocess.run: the second load of the cut
\* zones and the choice of the branch.
Plan(probe_ok) ==
    /\ pc = "started"
    /\ UNCHANGED run
    /\ LET skip_zones == get_zones_by_mode(scene_filters, "skip")
           audio_filter_chain == create_ffmpeg_filter_chain(pv.padded_segments)
           locals == [pv EXCEPT !.skip_zones = skip_zones]
           running == update_step(Tracker, 0, "running")
       IN  IF pv.video_filter_complex # NoFilter
           THEN LET pass1_output == IF skip_zones # <<>>
                                    THEN TempOutput(OutputPath, run) ELSE OutputPath
                IN  /\ temp_paths' = IF skip_zones # <<>>
                                     THEN Append(temp_paths, pass1_output) ELSE temp_paths
                    /\ Invokes("pass1",
                               scene_command(VideoPath, pass1_output,
                                             pv.video_filter_complex, EmptyPair,
                                             audio_filter_chain, pv.padded_segments, FALSE),
                               running, [locals EXCEPT !.pass1_output = pass1_output])
           ELSE IF skip_zones # <<>>
           THEN /\ UNCHANGED temp_paths
                /\ IF probe_raises(fs, VideoPath, probe_ok)
                   THEN LET r == Raised(result, Tracker, "ffprobe failed")
                        IN  Returns(r.res, r.q, fs, invocations, locals, "no")
                   ELSE LET duration == fs[VideoPath].duration
                            skip_filter == generate_skip_filter(skip_zones, duration)
                        IN  IF command_raises(skip_filter, TRUE)
                            THEN Returns(mark_complete(result, FALSE, "SKIP processing failed"),
                                         running, fs, invocations, locals, "no")
                            ELSE Invokes("skip_pass",
                                         scene_command(VideoPath, OutputPath, NoFilter,
                                                       skip_filter,
                                                       IF pv.padded_segments # <<>>
                                                       THEN audio_filter_chain ELSE <<>>,
                                                       pv.padded_segments, TRUE),
                                         running, locals)
           ELSE /\ UNCHANGED temp_paths
                /\ Invokes("mute_pass",
                           mute_command(VideoPath, OutputPath, audio_filter_chain),
                           running, locals)

\* Lines 300-343: pass 1 ends; on success the job step is completed and, with
\* cut zones, the temp file is probed and pass 2 started.
Pass1Returns(ok, wrote, wrote_duration, probe_ok, unlink_ok) ==
    /\ pc = "pass1"
    /\ UNCHANGED <<run, temp_paths>>
    /\ LET cmd == invocations[Len(invocations)]
           files == EngineWrites(fs, cmd, ok, wrote, wrote_duration)
           success == ok
           stepped == update_step(Tracker, 0,
                                          IF success THEN "complete" ELSE "failed")
       IN  IF pass1_aborts(success)
           THEN Returns(mark_complete(result, FALSE, "Pass 1 (BLUR/BLACK) failed"),
                        Tracker, files, Ended(ok), pv, "no")
           ELSE IF pv.skip_zones # <<>>
           THEN IF probe_raises(files, pv.pass1_output, probe_ok)
                THEN LET r == Raised(result, stepped, "ffprobe failed")
                     IN  Returns(r.res, r.q, files, Ended(ok), pv, "no")
                ELSE LET duration == pass2_duration(files, pv.pass1_output)
                         skip_filter == generate_skip_filter(pv.skip_zones, duration)
                         running == update_step(stepped, 1, "running")
                     IN  IF command_raises(skip_filter, TRUE)
                         THEN Returns(mark_complete(result, FALSE, "Pass 2 (SKIP) failed"),
                                      running,
                                      unlink(files, pv.pass1_output, unlink_ok).files,
                                      Ended(ok), pv,
                                      unlink(files, pv.pass1_output, unlink_ok).how)
                         ELSE /\ fs' = files
                              /\ pc' = "pass2"
                              /\ invocations' =
                                     Append(Ended(ok),
                                            scene_command(pv.pass1_output, OutputPath,
                                                          NoFilter, skip_filter, <<>>,
                                                          <<>>, TRUE))
                              /\ SetTracker(running)
                              /\ UNCHANGED <<scene_filters, edits, pv, result,
                                             unlink_attempted>>
                              /\ UNCHANGED callers
           ELSE LET res == Epilogue(result, success, pv.scene_zones_applied)
                IN  Returns(res, complete_job(stepped, res.status = "success"),
                            files, Ended(ok), pv, "no")

\* Lines 336-359 and 424-436: pass 2 ends, the temp file is unlinked.
Pass2Returns(ok, wrote, unlink_ok) ==
    /\ pc = "pass2"
    /\ UNCHANGED <<run, temp_paths>>
    /\ LET cmd == invocations[Len(invocations)]
           written == EngineWrites(fs, cmd, ok, wrote, 0)
           cleaned == unlink(written, pv.pass1_output, unlink_ok)
           files == cleaned.files
           success == ok
       IN  IF ~success
           THEN Returns(mark_complete(result, FALSE, "Pass 2 (SKIP) failed"),
                        Tracker, files, Ended(ok), pv, cleaned.how)
           ELSE LET stepped == update_step(Tracker, 1, "complete")
                    applied == pv.scene_zones_applied + Len(pv.skip_zones)
                    res == Epilogue(result, success, applied)
                IN  Returns(res, complete_job(stepped, res.status = "success"),
                            files, Ended(ok), [pv EXCEPT !.scene_zones_applied = applied],
                            cleaned.how)

\* Lines 381-399 and 424-436: the single cut pass ends.
SkipReturns(ok, wrote) ==
    /\ pc = "skip_pass"
    /\ UNCHANGED <<run, temp_paths>>
    /\ LET cmd == invocations[Len(invocations)]
           files == EngineWrites(fs, cmd, ok, wrote, 0)
           success == ok
       IN  IF ~success
           THEN Returns(mark_complete(result, FALSE, "SKIP processing failed"),
                        Tracker, files, Ended(ok), pv, "no")
           ELSE LET stepped == update_step(Tracker, 0, "complete")
                    applied == pv.scene_zones_applied + Len(pv.skip_zones)
                    res == Epilogue(result, success, applied)
                IN  Returns(res, complete_job(stepped, res.status = "success"),
                            files, Ended(ok), [pv EXCEPT !.scene_zones_applied = applied],
                            "no")

\* Lines 408-436: mute_audio ends; a non-zero exit raises RuntimeError, which
\* the except clause of process_video catches.
MuteReturns(ok, wrote) ==
    /\ pc = "mute_pass"
    /\ UNCHANGED <<run, temp_paths>>
    /\ LET cmd == invocations[Len(invocations)]
           files == EngineWrites(fs, cmd, ok, wrote, 0)
       IN  IF ~ok
           THEN LET r == Raised(result, Tracker, "FFmpeg failed")
                IN  Returns(r.res, r.q, files, Ended(ok), pv, "no")
           ELSE LET stepped == update_step(Tracker, 0, "complete")
                    res == Epilogue(result, TRUE, pv.scene_zones_applied)
                IN  Returns(res, complete_job(stepped, res.status = "success"),
                            files, Ended(ok), pv, "no")

\* The inputs a branch does not read are fixed, so that no step is listed twice.
Next ==
    \/ \E segments \in DetectedLists, before \in 0..MaxPad, after \in 0..MaxPad :
          StartRun(segments, before, after, TRUE, TRUE)
    \/ StartRun(<<>>, 0, 0, FALSE, TRUE)
    \/ StartRun(<<>>, 0, 0, TRUE, FALSE)
    \/ \E probe_ok \in BOOLEAN : Plan(probe_ok)
    \/ \E wrote_duration \in Durations, probe_ok \in BOOLEAN, unlink_ok \in BOOLEAN :
          Pass1Returns(TRUE, TRUE, wrote_duration, probe_ok, unlink_ok)
    \/ \E wrote \in BOOLEAN : Pass1Returns(FALSE, wrote, 1, TRUE, TRUE)
    \/ \E ok \in BOOLEAN, wrote \in BOOLEAN, unlink_ok \in BOOLEAN :
          Pass2Returns(ok, wrote, unlink_ok)
    \/ \E ok \in BOOLEAN, wrote \in BOOLEAN : SkipReturns(ok, wrote)
    \/ \E ok \in BOOLEAN, wrote \in BOOLEAN : MuteReturns(ok, wrote)

\* The orchestrator alone: the zone list is not edited while it runs.
Spec == Init /\ [][Next]_vars

\* The orchestrator with the scene editor saving zone lists concurrently.
NextEditor == Next \/ \E zones \in ZoneLists : SaveSceneFilters(zones)

SpecEditor == Init /\ [][NextEditor]_vars

\* ---------------------------------------------------------------------------
\* Direct calls of the segment and filter functions
\* ---------------------------------------------------------------------------

\* The valid MuteSegments and the validated cut zones over 0..MaxTick.
PureSegments ==
    {seg \in [start_time : 0..MaxTick, end_time : 0..MaxTick,
              word : {<<"w">>}, confidence : {ConfFull}] : MuteSegmentValid(seg)}

PureLists == SeqsUpTo(PureSegments, MaxList)

CutZones ==
    {z \in [mode : {"skip"}, start_time : 0..MaxTick, end_time : 0..MaxTick,
            mute : {FALSE}] : SkipZoneValid(z)}

CutLists == SeqsUpTo(CutZones, MaxList) \ {<<>>}

\* Each behaviour makes one direct call on a fresh input (and may merge again
\* what a merge returned).
\* merge_overlapping_segments(x)
CallMerge(x) ==
    /\ pure.op = "none"
    /\ pure' = [NoPure EXCEPT !.op = "merge", !.segments = x,
                              !.returned = merge_overlapping_segments(x)]
    /\ UNCHANGED <<pipeline, tracker, queue_call, observer, managers>>

\* merge_overlapping_segments applied to what the last merge returned.
CallMergeAgain ==
    /\ pure.op = "merge"
    /\ pure' = [pure EXCEPT !.op = "merge_again",
                            !.again = merge_overlapping_segments(pure.returned)]
    /\ UNCHANGED <<pipeline, tracker, queue_call, observer, managers>>

\* add_padding_to_segments(x, before_ms, after_ms)
CallPad(x, before, after) ==
    /\ pure.op = "none"
    /\ pure' = [NoPure EXCEPT !.op = "pad", !.segments = x,
                              !.before = before, !.after = after,
                              !.returned = add_padding_to_segments(x, before, after)]
    /\ UNCHANGED <<pipeline, tracker, queue_call, observer, managers>>

\* SceneProcessor.generate_skip_filter(zones, duration)
CallSkipFilter(zones, duration) ==
    /\ pure.op = "none"
    /\ pure' = [NoPure EXCEPT !.op = "skip_filter", !.zones = zones,
                              !.duration = duration,
                              !.filter = generate_skip_filter(zones, duration)]
    /\ UNCHANGED <<pipeline, tracker, queue_call, observer, managers>>

\* The field values a caller may hand to SkipZone(...).
ZoneInputs ==
    [mode : Modes, start_time : 0..MaxT, end_time : 0..MaxT, mute : BOOLEAN]

\* A SkipZone without its two validators.
CallSkipZoneUnchecked(z) ==
    /\ pure.op = "none"
    /\ pure' = [NoPure EXCEPT !.op = "skip_zone", !.zones = <<z>>,
                              !.accepted = z.start_time > 0 /\ z.end_time > 0]
    /\ UNCHANGED <<pipeline, tracker, queue_call, observer, managers>>

\* SkipZone(start_time=..., end_time=..., mode=..., mute=...): the zone is
\* constructed (accepted) or a ValidationError is raised.
CallSkipZone(z) ==
    /\ pure.op = "none"
    /\ pure' = [NoPure EXCEPT !.op = "skip_zone", !.zones = <<z>>,
                              !.accepted = SkipZoneValid(z)]
    /\ UNCHANGED <<pipeline, tracker, queue_call, observer, managers>>

InitPure == Init /\ scene_filters = <<>>

NextPure ==
    \/ pure.op = "none" /\ \E x \in PureLists : CallMerge(x)
    \/ CallMergeAgain
    \/ pure.op = "none" /\ \E x \in PureLists, before \in 0..MaxPad, after \in 0..MaxPad :
          CallPad(x, before, after)
    \/ pure.op = "none" /\ \E zones \in CutLists, duration \in 1..MaxTick :
          CallSkipFilter(zones, duration)
    \/ pure.op = "none" /\ \E z \in ZoneInputs : CallSkipZone(z)

SpecPure == InitPure /\ [][NextPure]_vars

Intervals(segments) ==
    [i \in 1..Len(segments) |-> <<segments[i].start_time, segments[i].end_time>>]

RECURSIVE TotalDuration(_)
TotalDuration(segments) ==
    IF segments = <<>> THEN 0
    ELSE (Head(segments).end_time - Head(segments).start_time)
         + TotalDuration(Tail(segments))

\* C11: merging is idempotent: merging what a merge returned gives the same
\* list, with the same count and the same start and end of every interval.
C11_MergeIdempotent ==
    pure.op = "merge_again"
        => /\ Len(pure.again) = Len(pure.returned)
           /\ Intervals(pure.again) = Intervals(pure.returned)

\* A merge of three segments that merged two of them was merged again.
C11_Witness ==
    /\ pure.op = "merge_again"
    /\ Len(pure.segments) = 3
    /\ Len(pure.returned) = 2

\* C12: what a merge returns is in ascending order of start, and any two of
\* its intervals are more than the tolerance apart (they neither overlap nor
\* lie within the tolerance of each other).
C12_MergedAscendingAndApart ==
    pure.op = "merge"
        => \A i, j \in 1..Len(pure.returned) :
               i < j => /\ pure.returned[i].start_time < pure.returned[j].start_time
                        /\ pure.returned[j].start_time - pure.returned[i].end_time
                               > Tolerance

\* An unsorted list was merged and three intervals were returned, so that a
\* pair that is not a pair of neighbours exists.
C12_Witness ==
    /\ pure.op = "merge"
    /\ Len(pure.segments) = 3
    /\ pure.segments[1].start_time > pure.segments[3].start_time
    /\ Len(pure.returned) = 3

\* C13: the total duration of what a merge returns is at most the sum of the
\* durations of the segments it was given.
C13_MergedDurationBounded ==
    pure.op = "merge" => TotalDuration(pure.returned) <= TotalDuration(pure.segments)

\* C14: padding with zero before and zero after returns the same intervals
\* as merging.
C14_ZeroPaddingIsMerge ==
    (pure.op = "pad" /\ pure.before = 0 /\ pure.after = 0)
        => Intervals(pure.returned) = Intervals(merge_overlapping_segments(pure.segments))

\* Zero padding was applied to segments of which some merged.
C14_Witness ==
    /\ pure.op = "pad" /\ pure.before = 0 /\ pure.after = 0
    /\ Len(pure.segments) = 3
    /\ Len(pure.returned) = 2

\* The keep segments the returned cut filter trims, in order.
KeepOf(filter) == [i \in 1..Len(filter.concat) |-> <<filter.concat[i].start, filter.concat[i].end>>]

\* The tick [t, t+1) lies in the interval (from, to).
Covers(from, to, t) == from <= t /\ t + 1 <= to

\* C15: the keep segments of the cut filter are the complement of the union
\* of the cut zones within [0, d]: ascending, pairwise disjoint, non-empty,
\* inside [0, d], disjoint from every cut zone, and covering [0, d] together
\* with the zones; for zones [Cut(30,40)] and d = 100 they are (0,30),(40,100).
C15_KeepIsComplement ==
    /\ keep_segments(<<[mode |-> "skip", start_time |-> 30, end_time |-> 40,
                        mute |-> FALSE]>>, 100) = <<<<0, 30>>, <<40, 100>>>>
    /\ pure.op = "skip_filter"
           => LET keep == KeepOf(pure.filter)
                  zones == pure.zones
                  d == pure.duration
              IN  /\ \A i \in 1..Len(keep) :
                         /\ 0 <= keep[i][1] /\ keep[i][1] < keep[i][2] /\ keep[i][2] <= d
                         /\ \A j \in 1..Len(keep) : i < j => keep[i][2] <= keep[j][1]
                         /\ \A k \in 1..Len(zones) :
                                \/ keep[i][2] <= zones[k].start_time
                                \/ zones[k].end_time <= keep[i][1]
                  /\ \A t \in 0..(d - 1) :
                         \/ \E i \in 1..Len(keep) : Covers(keep[i][1], keep[i][2], t)
                         \/ \E k \in 1..Len(zones) :
                                Covers(zones[k].start_time, zones[k].end_time, t)

\* ---------------------------------------------------------------------------
\* Properties of the orchestrator
\* ---------------------------------------------------------------------------

Finished == pc = "done"
Invoked == 1..Len(invocations)
SomePassFailed == \E i \in Invoked : invocations[i].outcome = "fail"

\* The call took the two-pass plan: pass 1 writes to the temp path.
IsTwoPass == pv.pass1_output = TempOutput(OutputPath, run)

HasMode(zones, modes) == \E i \in 1..Len(zones) : zones[i].mode \in modes

\* The decision table: one pass for the obscure zones, one for the cut zones.
TablePasses(zones) ==
    (IF HasMode(zones, {"blur", "black"}) THEN 1 ELSE 0)
    + (IF HasMode(zones, {"skip"}) THEN 1 ELSE 0)

\* C1: when a call that found its subtitle ends with no failure, the engine was
\* invoked as often as the decision table says for the video's zones (2 with
\* obscure and cut zones, 1 with only one kind, 0 with none), and with 0
\* invocations the destination holds a direct copy of the source.
C1_PassCountFollowsTable ==
    (Finished /\ result.status = "success")
        => /\ Len(invocations) = TablePasses(scene_filters)
           /\ Len(invocations) = 0 => fs[OutputPath].content = "copy"

\* C2: the single invocation of a cut-only call carries the concat filter and,
\* as its audio filter, the chain of the padded mute segments, one element
\* for each muted segment the result reports.
C2_CutOnlyCarriesAudioChain ==
    \A i \in Invoked :
        (invocations[i].pass = "cut" /\ invocations[i].input = VideoPath)
            => /\ invocations[i].concat # <<>>
               /\ invocations[i].af = create_ffmpeg_filter_chain(pv.padded_segments)
               /\ Len(invocations[i].af) = result.segments_muted

\* Every validated zone starts after 0, so the part of the timeline before
\* the first cut zone is always kept: the cut filter is never the empty pair.
KeepSegmentsNeverEmpty ==
    \A zones \in ZoneLists, duration \in Durations :
        LET skip_zones == get_zones_by_mode(zones, "skip")
        IN  skip_zones # <<>>
                => /\ keep_segments(skip_zones, duration) # <<>>
                   /\ generate_skip_filter(skip_zones, duration).is_str

\* C5: once a pass has failed and the call is over, the tracker holds no job
\* (none is left Processing with a step Running), and the document written
\* when the job was completed shows it Failed with no step Running.
C5_FailedPassCompletesJobFailed ==
    (Finished /\ SomePassFailed)
        => /\ ~current_job.present
           /\ ~status_file.current_job.present
           /\ flushed_job.current_job.present
           /\ flushed_job.current_job.status = "failed"
           /\ \A k \in 1..Len(flushed_job.current_job.steps) :
                  flushed_job.current_job.steps[k].status # "running"

\* C6: when a call ends failed, the destination holds nothing that a failed
\* engine invocation of that call wrote.
C6_FailedCallLeavesNoDestination ==
    (Finished /\ result.status = "failed")
        => ~(/\ fs[OutputPath].exists
             /\ fs[OutputPath].by = run
             /\ fs[OutputPath].content = "partial")

\* C7: temp paths are unique per call: no two calls use the same temp path, and
\* pass 1 never writes to a temp path that holds an earlier call's file.
C7_TempPathUniquePerCall ==
    /\ \A i, j \in 1..Len(temp_paths) : i # j => temp_paths[i] # temp_paths[j]
    /\ (pc = "pass1" /\ IsTwoPass)
           => ~(fs[pv.pass1_output].exists /\ fs[pv.pass1_output].by < run)

\* C8: a two-pass call attempts to delete its temp file before it returns,
\* whatever the outcome, and when that deletion did not fail no temp file of
\* the call is left.
C8_TempDeletedBeforeReturn ==
    (Finished /\ IsTwoPass)
        => /\ unlink_attempted # "no"
           /\ unlink_attempted = "unlinked"
                  => ~(fs[pv.pass1_output].exists /\ fs[pv.pass1_output].by = run)

\* C9: passes run one after the other and are never retried; a failed pass
\* is the last invocation of its call, it ends the call, and the call's result
\* is failed.
C9_FailedPassEndsCall ==
    /\ \A i \in Invoked :
           /\ invocations[i].outcome = "fail"
                  => i = Len(invocations) /\ Finished /\ result.status = "failed"
           /\ invocations[i].outcome = "running" => i = Len(invocations) /\ ~Finished
    /\ \A i, j \in Invoked : i # j => invocations[i].pass # invocations[j].pass

\* A two-pass call whose pass 1 failed is over, failed, with pass 2 never run.
C9_Witness ==
    /\ Finished /\ IsTwoPass
    /\ Len(invocations) = 1
    /\ invocations[1].pass = "obscure"
    /\ invocations[1].outcome = "fail"
    /\ result.status = "failed"

\* C10: in a two-pass call, pass 1 reads the source, writes the temp file and
\* carries the obscure filter and the audio chain; pass 2 starts only after
\* pass 1 succeeded, reads the temp file, writes the destination, carries no
\* audio filter, and its cut filter is built from the temp file's duration.
C10_TwoPassOrder ==
    (IsTwoPass /\ Len(invocations) >= 1)
        => /\ Len(invocations) <= 2
           /\ LET pass1 == invocations[1]
              IN  /\ pass1.pass = "obscure"
                  /\ pass1.input = VideoPath
                  /\ pass1.output = TempOutput(OutputPath, run)
                  /\ pass1.filter_complex = pv.video_filter_complex
                  /\ pass1.filter_complex # NoFilter
                  /\ pass1.concat = <<>>
                  /\ pass1.af = create_ffmpeg_filter_chain(pv.padded_segments)
           /\ Len(invocations) = 2
                  => LET pass2 == invocations[2]
                     IN  /\ invocations[1].outcome = "ok"
                         /\ pass2.pass = "cut"
                         /\ pass2.input = TempOutput(OutputPath, run)
                         /\ pass2.output = OutputPath
                         /\ pass2.filter_complex = NoFilter
                         /\ pass2.af = <<>>
                         /\ pc = "pass2"
                                => pass2.concat =
                                       generate_skip_filter(
                                           pv.skip_zones,
                                           fs[pass2.input].duration).concat

\* Pass 2 is running on a temp file shorter than the source, after a pass 1
\* that carried an audio chain.
C10_Witness ==
    /\ pc = "pass2" /\ IsTwoPass
    /\ Len(invocations) = 2
    /\ invocations[1].af # <<>>
    /\ fs[invocations[2].input].duration < fs[VideoPath].duration
    /\ generate_skip_filter(pv.skip_zones, fs[invocations[2].input].duration)
           # generate_skip_filter(pv.skip_zones, fs[VideoPath].duration)

\* The segments that came from scene zones, and the zones' own intervals.
SceneMuteWord == <<"[scene_mute]">>
SceneSegments(segments) == SelectSeq(segments, LAMBDA seg : seg.word = SceneMuteWord)
ZoneIntervals(zones) ==
    [i \in 1..Len(zones) |-> <<zones[i].start_time, zones[i].end_time>>]
ZoneEnables(zones) ==
    [i \in 1..Len(zones) |-> [from |-> zones[i].start_time, to |-> zones[i].end_time]]
MutedZones(zones) == SelectSeq(zones, LAMBDA z : z.mute)
ZonesOf(zones, modes) == SelectSeq(zones, LAMBDA z : z.mode \in modes)
StageMode(stage) == IF stage.stage = "gblur" THEN "blur" ELSE "black"

\* C16: an obscure zone with mute set contributes exactly its own interval to
\* the mute intervals (those before padding), the audio filter of the obscure
\* pass is the chain of the padded and merged mute intervals and silences
\* every one of them, and the video filter is enabled on the obscure zones
\* only: blur on the blur zones, black on the black zones.
C16_MutedZoneJoinsMuteIntervals ==
    (Len(invocations) >= 1 /\ invocations[1].pass = "obscure")
        => LET pass1 == invocations[1]
               muted == MutedZones(scene_filters)
           IN  /\ \A i \in 1..Len(muted) : muted[i].mode \in {"blur", "black"}
               /\ Intervals(SceneSegments(pv.segments)) = ZoneIntervals(muted)
               /\ pass1.af =
                      create_ffmpeg_filter_chain(
                          add_padding_to_segments(pv.segments,
                                                  pv.mute_padding_before_ms,
                                                  pv.mute_padding_after_ms))
               /\ \A i \in 1..Len(pv.segments) :
                      \E k \in 1..Len(pass1.af) :
                          /\ pass1.af[k].from <= pv.segments[i].start_time
                          /\ pv.segments[i].end_time <= pass1.af[k].to
               /\ Len(pass1.filter_complex)
                      = Cardinality({z.mode : z \in {scene_filters[i] : i \in
                            1..Len(scene_filters)}} \cap {"blur", "black"})
               /\ \A n \in 1..Len(pass1.filter_complex) :
                      pass1.filter_complex[n].enable =
                          ZoneEnables(ZonesOf(scene_filters,
                                              {StageMode(pass1.filter_complex[n])}))

\* One blur zone with mute set and one detected interval away from it, no
\* padding: the audio filter silences the two intervals and the blur is
\* enabled on the zone only.
C16_Witness ==
    /\ pc = "pass1"
    /\ Len(scene_filters) = 1
    /\ scene_filters[1].mode = "blur" /\ scene_filters[1].mute
    /\ pv.mute_padding_before_ms = 0 /\ pv.mute_padding_after_ms = 0
    /\ Len(pv.segments) = 2
    /\ pv.segments[1].word # SceneMuteWord
    /\ invocations[1].af =
           <<[from |-> scene_filters[1].start_time, to |-> scene_filters[1].end_time],
             [from |-> pv.segments[1].start_time, to |-> pv.segments[1].end_time]>>
    /\ invocations[1].filter_complex =
           <<[stage |-> "gblur",
              enable |-> <<[from |-> scene_filters[1].start_time,
                            to |-> scene_filters[1].end_time]>>]>>

SubtitleMissing(res) ==
    res.error_message = "No subtitle file found or could not be downloaded"

\* C17: a call that finds no zones and no mute intervals ends at once: it
\* invokes the engine zero times, leaves the tracker as it was (no job is
\* started), and copies the source to the destination (or, when the copy
\* itself raises, fails and leaves the files as they were).
C17_CleanCallCopies ==
    [][(/\ pc \in {"idle", "done"}
        /\ run' = run + 1
        /\ scene_filters = <<>>
        /\ pv'.segments = <<>>
        /\ ~SubtitleMissing(result'))
           => /\ pc' = "done"
              /\ invocations' = <<>>
              /\ UNCHANGED tracker
              /\ IF result'.status = "failed"
                 THEN UNCHANGED fs
                 ELSE /\ fs' = [fs EXCEPT ![OutputPath] =
                                   File(run', "copy", fs[VideoPath].duration)]
                      /\ result'.output_path = OutputPath]_vars

\* A call on a video without zones and without profanity is over, and the
\* destination holds its copy of the source.
C17_Witness ==
    /\ Finished
    /\ scene_filters = <<>> /\ pv.segments = <<>>
    /\ ~SubtitleMissing(result)
    /\ invocations = <<>>
    /\ fs[OutputPath] = File(run, "copy", fs[VideoPath].duration)
    /\ ~current_job.present

\* C18: when a video has no detected profanity and no scene filters and its
\* clean copy was made, the result that process_video returns has status
\* SKIPPED.
C18_CleanResultIsSkipped ==
    (/\ Finished
     /\ scene_filters = <<>> /\ pv.segments = <<>>
     /\ ~SubtitleMissing(result)
     /\ fs[OutputPath].by = run /\ fs[OutputPath].content = "copy")
        => result.status = "skipped"

\* ---------------------------------------------------------------------------
\* Direct calls of the ProcessingQueue methods
\* ---------------------------------------------------------------------------

\* The step indexes a caller may pass: one below the first step up to one
\* above the last step a job can have.
StepIndexes == -1..2
StepStatuses == {"pending", "running", "complete", "failed"}
Counts == 0..1

Called(op) == [NoQueueCall EXCEPT !.op = op, !.calls = queue_call.calls + 1,
                                  !.prior = Tracker]

\* ProcessingQueue.start_job(video_path, blur, black, skip, profanity)
CallStartJob(blur, black, skip, profanity) ==
    /\ queue_call.calls < MaxCalls
    /\ SetTracker(start_job(Tracker, "video", blur, black, skip, profanity))
    /\ queue_call' = [Called("start_job") EXCEPT !.blur = blur, !.black = black,
                                                  !.skip = skip,
                                                  !.profanity = profanity]
    /\ UNCHANGED <<pipeline, pure, observer, managers>>

\* ProcessingQueue.update_step(step_index, status)
CallUpdateStep(step_index, status) ==
    /\ queue_call.calls < MaxCalls
    /\ SetTracker(update_step(Tracker, step_index, status))
    /\ queue_call' = [Called("update_step") EXCEPT !.step_index = step_index,
                                                   !.status = status]
    /\ UNCHANGED <<pipeline, pure, observer, managers>>

\* ProcessingQueue.complete_job(success)
CallCompleteJob(success) ==
    /\ queue_call.calls < MaxCalls
    /\ SetTracker(complete_job(Tracker, success))
    /\ queue_call' = [Called("complete_job") EXCEPT !.success = success]
    /\ UNCHANGED <<pipeline, pure, observer, managers>>

\* The lists of paths a caller queues at once.
PendingPaths == {<<"other">>, <<"next", "other">>}

\* ProcessingQueue.add_pending_jobs(video_paths)
CallAddPendingJobs(video_paths) ==
    /\ queue_call.calls < MaxCalls
    /\ Len(pending_jobs) + Len(video_paths) <= MaxPending
    /\ SetTracker(add_pending_jobs(Tracker, video_paths))
    /\ queue_call' = Called("add_pending_jobs")
    /\ UNCHANGED <<pipeline, pure, observer, managers>>

\* ProcessingQueue.clear_pending_jobs()
CallClearPendingJobs ==
    /\ queue_call.calls < MaxCalls
    /\ SetTracker(clear_pending_jobs(Tracker))
    /\ queue_call' = Called("clear_pending_jobs")
    /\ UNCHANGED <<pipeline, pure, observer, managers>>

InitQueue == Init /\ scene_filters = <<>>

NextQueue ==
    \/ \E blur \in Counts, black \in Counts, skip \in Counts, profanity \in Counts :
          CallStartJob(blur, black, skip, profanity)
    \/ \E step_index \in StepIndexes, status \in StepStatuses :
          CallUpdateStep(step_index, status)
    \/ \E success \in BOOLEAN : CallCompleteJob(success)
    \/ \E video_paths \in PendingPaths : CallAddPendingJobs(video_paths)
    \/ CallClearPendingJobs

SpecQueue == InitQueue /\ [][NextQueue]_vars

\* C19: after start_job the current job is the fresh job of the call's
\* arguments and nothing of the job before it: status Processing, every step
\* Pending without timestamps, one step if there are blur or black zones plus
\* one step if there are cut zones (two for blur = 1, cut = 1), one generic
\* step when there is none of them; the counts are the arguments, and the
\* status file shows this job.
C19_StartJobIsFresh ==
    queue_call.op = "start_job"
        => LET visual == queue_call.blur > 0 \/ queue_call.black > 0
               cut == queue_call.skip > 0
               passes == (IF visual THEN 1 ELSE 0) + (IF cut THEN 1 ELSE 0)
           IN  /\ current_job.present
               /\ current_job.status = "processing"
               /\ current_job.video_path = "video"
               /\ current_job.started_at = Stamp
               /\ current_job.completed_at = None
               /\ current_job.blur_count = queue_call.blur
               /\ current_job.black_count = queue_call.black
               /\ current_job.skip_count = queue_call.skip
               /\ current_job.profanity_count = queue_call.profanity
               /\ Len(current_job.steps) = IF passes > 0 THEN passes ELSE 1
               /\ (queue_call.blur = 1 /\ queue_call.skip = 1)
                      => Len(current_job.steps) = 2
               /\ \A k \in 1..Len(current_job.steps) :
                      /\ current_job.steps[k].status = "pending"
                      /\ current_job.steps[k].started_at = None
                      /\ current_job.steps[k].completed_at = None
               /\ pending_jobs = queue_call.prior.pending
               /\ status_file = get_status(current_job, pending_jobs)

\* A job with blur = 1 and cut = 1 was started over a job that was still
\* Processing, with a step Running and other counts.
C19_Witness ==
    /\ queue_call.op = "start_job"
    /\ queue_call.blur = 1 /\ queue_call.skip = 1
    /\ Len(current_job.steps) = 2
    /\ queue_call.prior.job.present
    /\ queue_call.prior.job.status = "processing"
    /\ queue_call.prior.job.blur_count = 0
    /\ \E k \in 1..Len(queue_call.prior.job.steps) :
           queue_call.prior.job.steps[k].status = "running"

\* C20: update_step with an index below 0 or not below the number of steps
\* of the current job changes nothing: the job with its steps, statuses and
\* timestamps, the pending list and the status file are as before the call.
C20_UpdateStepOutOfRange ==
    (/\ queue_call.op = "update_step"
     /\ \/ queue_call.step_index < 0
        \/ queue_call.step_index >= Len(queue_call.prior.job.steps))
        => /\ current_job = queue_call.prior.job
           /\ pending_jobs = queue_call.prior.pending
           /\ status_file = queue_call.prior.file
           /\ flushed_job = queue_call.prior.flushed

\* update_step was called with a negative index on a job with a Running step.
C20_Witness ==
    /\ queue_call.op = "update_step"
    /\ queue_call.step_index < 0
    /\ queue_call.status = "complete"
    /\ current_job.present
    /\ \E k \in 1..Len(current_job.steps) : current_job.steps[k].status = "running"

\* C21: complete_job(success) on a tracker with a job turns every step that is
\* Pending or Running into Complete (success) or Failed (no success) and
\* leaves the other steps as they are, writes the job with the overall status
\* of the outcome, and leaves the tracker and the status file with no current
\* job; after complete_job(false) the written job has no step Pending or
\* Running and its status is Failed.
C21_CompleteJobFinishesSteps ==
    (queue_call.op = "complete_job" /\ queue_call.prior.job.present)
        => LET before == queue_call.prior.job
               after == flushed_job.current_job
               outcome == IF queue_call.success THEN "complete" ELSE "failed"
           IN  /\ ~current_job.present
               /\ ~status_file.current_job.present
               /\ after.present
               /\ after.status = outcome
               /\ Len(after.steps) = Len(before.steps)
               /\ \A i \in 1..Len(before.steps) :
                     after.steps[i].status =
                         IF before.steps[i].status \in {"pending", "running"}
                         THEN outcome ELSE before.steps[i].status
               /\ ~queue_call.success
                     => /\ after.status = "failed"
                        /\ \A i \in 1..Len(after.steps) :
                              after.steps[i].status \notin {"pending", "running"}

\* complete_job(false) was called on a job with one step Running and one
\* Pending.
C21_Witness ==
    /\ queue_call.op = "complete_job"
    /\ ~queue_call.success
    /\ queue_call.prior.job.present
    /\ \E i, j \in 1..Len(queue_call.prior.job.steps) :
          /\ queue_call.prior.job.steps[i].status = "running"
          /\ queue_call.prior.job.steps[j].status = "pending"

SavePositions ==
    {"closed", "truncated", "partial", "truncated_1", "partial_1", "closed_1"}

\* How much of the document the file holds.
Bytes ==
    CASE save_pc \in {"closed", "closed_1"} -> "whole"
      [] save_pc \in {"truncated", "truncated_1"} -> "empty"
      [] OTHER -> "partial"

\* The document the write in progress (or the last write) is of.
Document ==
    IF save_pc \in {"truncated_1", "partial_1", "closed_1"} THEN flushed_job
    ELSE status_file

\* A tracker method runs up to the open() of its first _save: q is the
\* tracker the method leaves, at the position of the write it is in.
Opens(q, call, at) ==
    /\ save_pc = "closed"
    /\ queue_call.calls < MaxWrites
    /\ SetTracker(q)
    /\ queue_call' = call
    /\ save_pc' = at
    /\ UNCHANGED <<pipeline, pure, observed, managers>>

StartJobOpens(blur, black, skip, profanity) ==
    Opens(start_job(Tracker, "video", blur, black, skip, profanity),
          [Called("start_job") EXCEPT !.blur = blur, !.black = black,
                                      !.skip = skip, !.profanity = profanity],
          "truncated")

\* update_step returns without a _save when there is no job or the index is
\* out of range.
UpdateStepOpens(step_index, status) ==
    Opens(update_step(Tracker, step_index, status),
          [Called("update_step") EXCEPT !.step_index = step_index,
                                        !.status = status],
          IF current_job.present /\ step_index >= 0
                /\ step_index < Len(current_job.steps)
          THEN "truncated" ELSE "closed")

\* complete_job returns without a _save when there is no job.
CompleteJobOpens(success) ==
    Opens(complete_job(Tracker, success),
          [Called("complete_job") EXCEPT !.success = success],
          IF current_job.present THEN "truncated_1" ELSE "closed")

\* The write in progress goes on: json.dump flushes a part of the text, or
\* the with block closes the file with the whole text; after its first write
\* complete_job opens the file again.
Dumps(whole) ==
    /\ save_pc # "closed"
    /\ save_pc' =
          CASE save_pc = "truncated" -> IF whole THEN "closed" ELSE "partial"
            [] save_pc = "partial" -> "closed"
            [] save_pc = "truncated_1" -> IF whole THEN "closed_1" ELSE "partial_1"
            [] save_pc = "partial_1" -> "closed_1"
            [] save_pc = "closed_1" -> "truncated"
    /\ UNCHANGED <<pipeline, tracker, pure, queue_call, observed, managers>>

\* _load of a tracker that another process constructs: json.load of the file
\* as it is now. A text that is not a whole document raises, and _load leaves
\* the reader with the clean state.
Reads ==
    /\ observed.reads < MaxReads
    /\ observed' = [reads |-> observed.reads + 1, bytes |-> Bytes,
                    document |-> IF Bytes = "whole" THEN Document
                                 ELSE get_status(NoJob, <<>>)]
    /\ UNCHANGED <<pipeline, tracker, pure, queue_call, save_pc, managers>>

NextObserver ==
    \/ \E blur \in Counts, black \in Counts, skip \in Counts, profanity \in Counts :
          StartJobOpens(blur, black, skip, profanity)
    \/ \E step_index \in StepIndexes, status \in StepStatuses :
          UpdateStepOpens(step_index, status)
    \/ \E success \in BOOLEAN : CompleteJobOpens(success)
    \/ \E whole \in BOOLEAN : Dumps(whole)
    \/ Reads

SpecObserver == InitQueue /\ [][NextObserver]_vars

\* C23: a reader of the status file finds a whole document, the one before
\* the write in progress or the one being written, and never an empty or a
\* partial text.
C23_ReaderFindsWholeDocument ==
    observed.reads > 0 => observed.bytes = "whole"

\* ---------------------------------------------------------------------------
\* The process ends during an engine pass and a new one starts
\* ---------------------------------------------------------------------------

InFlight == pc \in {"pass1", "pass2", "skip_pass", "mute_pass"}

\* The process is killed while process_video blocks in subprocess.run, and a
\* new process constructs its ProcessingQueue over the same status file. The
\* locals and the result of the call are gone with the process; the engine
\* log keeps the invocation that never returned.
Restarts ==
    /\ InFlight
    /\ pc' = "restarted"
    /\ SetTracker(load(Tracker))
    /\ pv' = NoLocals
    /\ result' = NewResult
    /\ UNCHANGED <<scene_filters, edits, fs, run, invocations, unlink_attempted,
                   temp_paths>>
    /\ UNCHANGED callers

NextRestart == Next \/ Restarts

SpecRestart == Init /\ [][NextRestart]_vars

\* C24: when the process ends during an engine pass, the tracker constructed
\* after the restart holds the job as the status file has it, which is the job
\* the dead process held: its status is not complete, its steps are the steps
\* of before, the engine is not invoked and the status file is not written.
C24_ReloadOnlyDisplays ==
    [][pc' = "restarted"
          => /\ current_job' = status_file.current_job
             /\ current_job'.present
             /\ current_job'.status # "complete"
             /\ current_job'.steps = current_job.steps
             /\ pending_jobs' = status_file.pending_jobs
             /\ invocations' = invocations
             /\ status_file' = status_file]_vars

\* The process ended during pass 2 of a two-pass job and the tracker was
\* constructed again: step 1 is complete and step 2 still running.
C24_Witness ==
    /\ pc = "restarted"
    /\ Len(current_job.steps) = 2
    /\ current_job.steps[1].status = "complete"
    /\ current_job.steps[2].status = "running"
    /\ invocations[Len(invocations)].outcome = "running"

\* C25: the construction of a SkipZone is rejected when end_time <= start_time
\* and when mute is true with mode skip; mute true is accepted with mode blur
\* or black on a zone whose times are valid; so no constructed zone has mode
\* skip with mute true.
C25_SkipZoneValidation ==
    pure.op = "skip_zone"
        => LET z == pure.zones[1]
           IN  /\ z.end_time <= z.start_time => ~pure.accepted
               /\ (z.mute /\ z.mode = "skip") => ~pure.accepted
               /\ (z.mute /\ z.mode \in {"blur", "black"}
                      /\ z.start_time > 0 /\ z.end_time > z.start_time)
                     => pure.accepted
               /\ pure.accepted => ~(z.mode = "skip" /\ z.mute)

\* A zone with valid times, mode skip and mute true was handed to SkipZone
\* and rejected.
C25_Witness ==
    /\ pure.op = "skip_zone"
    /\ pure.zones[1].mode = "skip" /\ pure.zones[1].mute
    /\ pure.zones[1].start_time > 0
    /\ pure.zones[1].end_time > pure.zones[1].start_time
    /\ ~pure.accepted

\* ---------------------------------------------------------------------------
\* Direct calls of the FileManager methods
\* ---------------------------------------------------------------------------

FileManager == [files |-> processed_files, log |-> processed_log]

SetFileManager(fm) ==
    /\ processed_files' = fm.files
    /\ processed_log' = fm.log

FileCalled(op) ==
    [NoFileCall EXCEPT !.op = op, !.calls = fm_call.calls + 1,
                       !.instance = fm_call.instance]

FileFrame == UNCHANGED <<pipeline, tracker, pure, queue_call, observer, queue_file, qm_call>>

CallMarkAsProcessed(video_path, success) ==
    /\ fm_call.calls < MaxFileCalls
    /\ SetFileManager(mark_as_processed(FileManager, video_path, success))
    /\ fm_call' = [FileCalled("mark_as_processed") EXCEPT !.video_path = video_path,
                                                          !.success = success]
    /\ FileFrame

CallIsProcessed(video_path) ==
    /\ fm_call.calls < MaxFileCalls
    /\ fm_call' = [FileCalled("is_processed") EXCEPT
                      !.video_path = video_path,
                      !.returned = is_processed(FileManager, video_path)]
    /\ UNCHANGED <<processed_files, processed_log>>
    /\ FileFrame

CallGetUnprocessedVideos ==
    /\ fm_call.calls < MaxFileCalls
    /\ fm_call' = [FileCalled("get_unprocessed_videos") EXCEPT
                      !.unprocessed = get_unprocessed_videos(FileManager)]
    /\ UNCHANGED <<processed_files, processed_log>>
    /\ FileFrame

CallResetProcessedStatus(video_path) ==
    /\ fm_call.calls < MaxFileCalls
    /\ LET reset == reset_processed_status(FileManager, video_path)
       IN  /\ SetFileManager(reset.fm)
           /\ fm_call' = [FileCalled("reset_processed_status") EXCEPT
                             !.video_path = video_path,
                             !.returned = reset.returned]
    /\ FileFrame

CallResetFailedVideos ==
    /\ fm_call.calls < MaxFileCalls
    /\ LET reset == reset_failed_videos(FileManager)
       IN  /\ SetFileManager(reset.fm)
           /\ fm_call' = [FileCalled("reset_failed_videos") EXCEPT
                             !.count = reset.count]
    /\ FileFrame

CallClearProcessedLog ==
    /\ fm_call.calls < MaxFileCalls
    /\ SetFileManager(clear_processed_log(FileManager))
    /\ fm_call' = FileCalled("clear_processed_log")
    /\ FileFrame

\* FileManager(path_config, processing_config) in a new process: the set is
\* loaded from the log.
NewFileManager ==
    /\ fm_call.calls < MaxFileCalls
    /\ processed_files' = load_processed_log(processed_log)
    /\ fm_call' = [FileCalled("FileManager") EXCEPT !.instance = @ + 1]
    /\ UNCHANGED processed_log
    /\ FileFrame

NextFiles ==
    \/ \E video_path \in Videos, success \in BOOLEAN :
          CallMarkAsProcessed(video_path, success)
    \/ \E video_path \in Videos : CallIsProcessed(video_path)
    \/ CallGetUnprocessedVideos
    \/ \E video_path \in Videos : CallResetProcessedStatus(video_path)
    \/ CallResetFailedVideos
    \/ CallClearProcessedLog
    \/ NewFileManager

SpecFiles == InitQueue /\ [][NextFiles]_vars

C29_ProcessedSetEqualsLog ==
    fm_call.op \in {"mark_as_processed", "reset_processed_status",
                    "reset_failed_videos", "clear_processed_log"}
        => processed_files = load_processed_log(processed_log)

\* ---------------------------------------------------------------------------
\* Direct calls of the QueueManager methods
\* ---------------------------------------------------------------------------

QueuePaths == {"a.mkv", "b.mkv", "c.mkv"}

ManagerCalled(op) ==
    [NoManagerCall EXCEPT !.op = op, !.calls = qm_call.calls + 1,
                          !.prior = queue_file]

ManagerFrame == UNCHANGED <<pipeline, tracker, pure, queue_call, observer, processed_files, processed_log, fm_call>>

\* added_at is datetime.now(): later for every later call.
CallAddToQueue(video_path, priority) ==
    /\ qm_call.calls < MaxManagerCalls
    /\ LET added == add_to_queue(queue_file, video_path, priority, qm_call.calls + 1)
       IN  /\ queue_file' = added.queue
           /\ qm_call' = [ManagerCalled("add_to_queue") EXCEPT
                             !.video_path = video_path, !.priority = priority,
                             !.returned = added.returned]
    /\ ManagerFrame

CallRemoveFromQueue(video_path) ==
    /\ qm_call.calls < MaxManagerCalls
    /\ LET removed == remove_from_queue(queue_file, video_path)
       IN  /\ queue_file' = removed.queue
           /\ qm_call' = [ManagerCalled("remove_from_queue") EXCEPT
                             !.video_path = video_path,
                             !.returned = removed.returned]
    /\ ManagerFrame

CallPopNext ==
    /\ qm_call.calls < MaxManagerCalls
    /\ LET popped == pop_next(queue_file)
       IN  /\ queue_file' = popped.queue
           /\ qm_call' = [ManagerCalled("pop_next") EXCEPT !.popped = popped.popped]
    /\ ManagerFrame

CallClearQueue ==
    /\ qm_call.calls < MaxManagerCalls
    /\ queue_file' = clear_queue(queue_file).queue
    /\ qm_call' = [ManagerCalled("clear_queue") EXCEPT
                      !.returned = clear_queue(queue_file).returned]
    /\ ManagerFrame

NextManager ==
    \/ \E video_path \in QueuePaths, priority \in 0..MaxPriority :
          CallAddToQueue(video_path, priority)
    \/ \E video_path \in QueuePaths : CallRemoveFromQueue(video_path)
    \/ CallPopNext
    \/ CallClearQueue

SpecManager == InitQueue /\ [][NextManager]_vars

Rank(status) ==
    CASE status = "pending" -> 0
      [] status = "running" -> 1
      [] OTHER -> 2

\* C27: over every step of process_video that does not start a new job, no
\* step of the job goes back (pending, then running, then complete or failed,
\* and a complete or failed step stays what it is), step 1 becomes running
\* only when step 0 is complete, and at most one step is running. The job
\* that complete_job cleared is the one it wrote before clearing.
C27_StepsMoveForward ==
    [][(current_job.present /\ pc' # "started")
          => LET before == current_job.steps
                 after == IF current_job'.present THEN current_job'.steps
                          ELSE flushed_job'.current_job.steps
             IN  /\ Len(after) = Len(before)
                 /\ \A i \in 1..Len(before) :
                       /\ Rank(after[i].status) >= Rank(before[i].status)
                       /\ Rank(before[i].status) = 2
                             => after[i].status = before[i].status
                 /\ (Len(after) = 2 /\ after[2].status = "running"
                        /\ before[2].status # "running")
                       => after[1].status = "complete"
                 /\ Cardinality({i \in 1..Len(after) :
                                    after[i].status = "running"}) <= 1]_vars

\* Pass 2 of a job of two steps is running: step 0 went from pending over
\* running to complete, step 1 from pending to running.
C27_Witness ==
    /\ pc = "pass2"
    /\ current_job.present
    /\ Len(current_job.steps) = 2
    /\ current_job.steps[1].status = "complete"
    /\ current_job.steps[1].started_at = Stamp
    /\ current_job.steps[2].status = "running"

\* ---------------------------------------------------------------------------
\* One call of process_video while the scene editor saves
\* ---------------------------------------------------------------------------

\* The first call of process_video, without padding, and the editor's save
\* at any moment of it.
NextEdited ==
    \/ run = 0 /\ \E segments \in DetectedLists : StartRun(segments, 0, 0, TRUE, TRUE)
    \/ \E probe_ok \in BOOLEAN : Plan(probe_ok)
    \/ \E wrote_duration \in Durations, probe_ok \in BOOLEAN, unlink_ok \in BOOLEAN :
          Pass1Returns(TRUE, TRUE, wrote_duration, probe_ok, unlink_ok)
    \/ \E wrote \in BOOLEAN : Pass1Returns(FALSE, wrote, 1, TRUE, TRUE)
    \/ \E ok \in BOOLEAN, wrote \in BOOLEAN, unlink_ok \in BOOLEAN :
          Pass2Returns(ok, wrote, unlink_ok)
    \/ \E ok \in BOOLEAN, wrote \in BOOLEAN : SkipReturns(ok, wrote)
    \/ \E ok \in BOOLEAN, wrote \in BOOLEAN : MuteReturns(ok, wrote)
    \/ \E zones \in ZoneLists : SaveSceneFilters(zones)

SpecEdited == Init /\ [][NextEdited]_vars

\* C28: while a pass of a call is in flight, the cut zones the passes are
\* chosen and built from are as many as the job counted at start_job, and the
\* engine was invoked at most as often as the job has steps; when the last
\* pass has returned with success, the job written by complete_job has as many
\* steps as passes were executed.
C28_StepsMatchPasses ==
    /\ InFlight
          => /\ Len(pv.skip_zones) = current_job.skip_count
             /\ Len(invocations) <= Len(current_job.steps)
    /\ (Finished /\ result.status = "success" /\ invocations # <<>>)
          => Len(flushed_job.current_job.steps) = Len(invocations)

====
